---- MODULE Spec2Model ----
(***************************************************************************)
(* The version-upgrade migration pipeline of dify-cdk                      *)
(* (lib/S3/s3-stack.ts, class DifyMigrationConstruct): the gate            *)
(* shouldRunMigration, the constructor that declares the volume claim, the *)
(* status ConfigMap and the four Jobs, and the Jobs' init-container and    *)
(* container shell scripts running on the cluster.                         *)
(***************************************************************************)
EXTENDS Integers, Sequences, FiniteSets, TLC

VARIABLES
    request,       \* config.dify.migration and props.difyVersion
    orch,          \* per invocation: position of the DifyMigrationConstruct constructor
    gate,          \* per invocation: value returned by shouldRunMigration ("none" before)
    now,           \* per invocation: the Date.now() it read (0: not read)
    declared,      \* per invocation: construct ids declared by the constructor, in order
    deps,          \* per invocation: node.addDependency edges <<dependent, dependency>>
    statusRecord,  \* per invocation: the data of the declared ConfigMap
    jobSpecs,      \* per invocation: the spec fields of the four declared Jobs
    created,       \* per invocation: manifests applied to the cluster
    pvc,           \* the volume claim dify-migration-pvc exists in the namespace
    configMap,     \* the ConfigMap dify-migration-status in the namespace
    phase,         \* per Job: absent, waiting (init container), running, succeeded, failed
    pc,            \* per Job: the command its container script is about to run
    restarts,      \* per Job: container restarts so far (counted against backoffLimit)
    attempts,      \* per Job: starts of the main container so far
    flask,         \* per Job: result of the flask command in the current attempt
    local,         \* per Job: plugins.jsonl in the container's working directory
    store,         \* files under /migration on the volume dify-migration-pvc
    writer,        \* per file: the timestamp in the name of the Job that wrote it last
    db,            \* stages whose flask command has changed the database
    helmProps,     \* DifyHelmConstruct: which constructor, dbMigration.enabled, props.alb
    helmOrch,      \* position of the DifyHelmConstruct constructor
    helmDeclared,  \* resources declared by the DifyHelmConstruct constructor
    helmDeps,      \* their node.addDependency edges <<dependent, dependency>>
    helmCreated,   \* resources the Helm deployment has created, in order of creation
    migPhase,      \* the Job dify-db-migration: absent, waiting, running, succeeded, failed
    migRestarts,   \* restarts of its container so far
    configFile,    \* config.json: missing, not JSON, or the value it parses to
    loadResult,    \* what loadConfig has returned or thrown
    defaultConfig  \* the object defaultConfig of the module ./default

vars == <<request, orch, gate, now, declared, deps, statusRecord, jobSpecs, created,
          pvc, configMap, phase, pc, restarts, attempts, flask, local, store,
          writer, db, helmProps, helmOrch, helmDeclared, helmDeps, helmCreated,
          migPhase, migRestarts, configFile, loadResult, defaultConfig>>

orchVars == <<request, orch, gate, now, declared, deps, statusRecord, jobSpecs>>
jobVars == <<phase, pc, restarts, attempts, flask, local>>
volumeVars == <<store, writer>>
helmVars == <<helmProps, helmOrch, helmDeclared, helmDeps, helmCreated,
              migPhase, migRestarts>>

configVars == <<configFile, loadResult, defaultConfig>>

\* what DifyMigrationConstruct and its Jobs never touch
otherVars == <<helmVars, configVars>>

\* what DifyHelmConstruct and its deployment never touch
migrationVars == <<orchVars, created, pvc, configMap, jobVars, volumeVars, db>>

(***************************************************************************)
(* Configuration values.  An optional field that is not given is UNSET.    *)
(***************************************************************************)
UNSET == "<unset>"

OptBool == {UNSET, "false", "true"}

Bool == {"false", "true"}

FromVersions == {UNSET, "", "1.0.0"}

DifyVersions == {"1.4.2", "17", ""}

Requests ==
    [enabled : OptBool, autoDetect : Bool, fromVersion : FromVersions,
     skipPluginMigration : OptBool, difyVersion : DifyVersions]

\* the requests the Jobs are run for: the fields no Job depends on are fixed
ChainRequests ==
    {req \in Requests :
        /\ req.autoDetect = "true"
        /\ req.difyVersion = "1.4.2"
        /\ req.skipPluginMigration # UNSET}

\* JavaScript truthiness of an optional boolean or string
Truthy(v) == v \notin {UNSET, "false", ""}

(***************************************************************************)
(* shouldRunMigration                                                      *)
(***************************************************************************)
shouldRunMigration_IgnoresEnabled(req) ==
    IF Truthy(req.fromVersion)
    THEN ~Truthy(req.skipPluginMigration)
    ELSE FALSE

shouldRunMigration_AutoDetects(req) ==
    IF ~Truthy(req.enabled) THEN FALSE
    ELSE IF Truthy(req.fromVersion)
         THEN ~Truthy(req.skipPluginMigration)
         ELSE Truthy(req.autoDetect)

shouldRunMigration_IgnoresSkip(req) ==
    IF ~Truthy(req.enabled) THEN FALSE
    ELSE Truthy(req.fromVersion)

shouldRunMigration_ComparesVersions(req) ==
    IF ~Truthy(req.enabled) THEN FALSE
    ELSE IF Truthy(req.fromVersion)
         THEN IF Truthy(req.skipPluginMigration) THEN FALSE
              ELSE req.difyVersion # req.fromVersion /\ req.difyVersion # ""
         ELSE FALSE

shouldRunMigration_Never(req) == FALSE

shouldRunMigration(req) ==
    IF ~Truthy(req.enabled) THEN FALSE
    ELSE IF Truthy(req.fromVersion)
         THEN IF Truthy(req.skipPluginMigration) THEN FALSE ELSE TRUE
         ELSE FALSE

(***************************************************************************)
(* The resources the constructor declares                                  *)
(***************************************************************************)
Stages == 1..4

\* the constructor is invoked at most twice (two deployment actions)
Invocations == 1..2

\* values of Date.now(), in milliseconds from the first reading
MaxClock == 2

Clock == 1..MaxClock

\* the Jobs of the namespace, by name: stage and timestamp suffix
Jobs == Stages \X Clock

Stage(j) == j[1]

\* metadata.name of a Job: `dify-extract-plugins-${Date.now()}` ...
NamePrefix(n) ==
    CASE n = 1 -> "dify-extract-plugins-"
      [] n = 2 -> "dify-install-plugins-"
      [] n = 3 -> "dify-db-upgrade-"
      [] n = 4 -> "dify-data-migration-"

JobName(n, t) == <<NamePrefix(n), t>>

\* persistentVolumeClaim.claimName in the pod template of each Job
ClaimName(n) == "dify-migration-pvc"

PvcName == "dify-migration-pvc"

PvcId == "migration-pvc"
ConfigMapId == "migration-configmap"

JobId(n) ==
    CASE n = 1 -> "extract-plugins-job"
      [] n = 2 -> "install-plugins-job"
      [] n = 3 -> "db-upgrade-job"
      [] n = 4 -> "data-migration-job"

Resources == {PvcId, ConfigMapId} \cup {JobId(n) : n \in Stages}

DeclaredResources ==
    <<PvcId, ConfigMapId, JobId(1), JobId(2), JobId(3), JobId(4)>>

DeclaredDependencies_Unchained ==
    {<<JobId(1), PvcId>>, <<JobId(1), ConfigMapId>>}

DeclaredDependencies ==
    {<<JobId(1), PvcId>>, <<JobId(1), ConfigMapId>>,
     <<JobId(2), JobId(1)>>, <<JobId(3), JobId(2)>>, <<JobId(4), JobId(3)>>}

NoRecord ==
    [exists |-> FALSE, status |-> "", fromVersion |-> "", toVersion |-> "",
     timestamp |-> 0]

createMigrationConfigMap_Unknown(req, t) ==
    [exists |-> TRUE,
     status |-> "pending",
     fromVersion |-> "unknown",
     toVersion |-> req.difyVersion,
     timestamp |-> t]

createMigrationConfigMap(req, t) ==
    [exists |-> TRUE,
     status |-> "pending",
     fromVersion |-> IF Truthy(req.fromVersion) THEN req.fromVersion ELSE "unknown",
     toVersion |-> req.difyVersion,
     timestamp |-> t]

\* spec fields of the Job of stage n; a field that is not set is the empty set:
\* no Job of the chain sets activeDeadlineSeconds
backoffLimit == 3

ttlSecondsAfterFinished == 3600

NoJobSpecs == <<>>

JobSpec(n) ==
    [restartPolicy |-> "OnFailure",
     backoffLimit |-> backoffLimit,
     ttlSecondsAfterFinished |-> ttlSecondsAfterFinished,
     activeDeadlineSeconds |-> {},
     initContainer |-> n > 1,
     claimName |-> ClaimName(n)]

(***************************************************************************)
(* Files of the shared volume and the scripts of the four Jobs             *)
(***************************************************************************)
Manifest == "plugins.jsonl"
StatusNote == "status.txt"

\* the file a Job's script leaves on the volume
Marker(n) ==
    CASE n = 1 -> Manifest
      [] n = 2 -> "install-complete"
      [] n = 3 -> "db-upgrade-complete"
      [] n = 4 -> "migration-complete"

Files == {Marker(n) : n \in Stages} \cup {StatusNote}

\* the file a Job's init container polls for (Jobs 2..4)
WaitFile_CopyPaste(n) == Manifest

WaitFile_OwnMarker(n) ==
    CASE n = 2 -> Manifest
      [] n = 3 -> "install-complete"
      [] n = 4 -> "migration-complete"

WaitFile(n) ==
    CASE n = 2 -> Manifest
      [] n = 3 -> "install-complete"
      [] n = 4 -> "db-upgrade-complete"

Exists_Always(f) == TRUE

\* [ -f file ]
Exists(f) == store[f] # "absent"

InitContainerDone_TimesOut(n) == TRUE

\* the while loop of the init container has ended
InitContainerDone(n) == Exists(WaitFile(n))

FirstCmd(n) == IF n = 2 THEN "cpIn" ELSE "flask"

MayRestart_OneMore(j) == restarts[j] <= backoffLimit

MayRestart(j) == restarts[j] < backoffLimit

Range(seq) == {seq[i] : i \in 1..Len(seq)}

Max(S) == CHOOSE x \in S : \A y \in S : y <= x

CmdLabels == {"-", "cpIn", "flask", "cp", "cpWrite", "ls", "touch", "note"}

TypeOK ==
    /\ request \in Requests
    /\ orch \in [Invocations -> {"off", "start", "returned"}]
    /\ gate \in [Invocations -> {"none", "true", "false"}]
    /\ now \in [Invocations -> 0..MaxClock]
    /\ \A r \in Invocations : created[r] \subseteq Resources
    /\ pvc \in BOOLEAN
    /\ phase \in [Jobs -> {"absent", "waiting", "running", "succeeded", "failed"}]
    /\ pc \in [Jobs -> CmdLabels]
    /\ restarts \in [Jobs -> 0..(backoffLimit + 1)]
    /\ attempts \in [Jobs -> 0..(backoffLimit + 2)]
    /\ flask \in [Jobs -> {"none", "ok", "fail"}]
    /\ local \in [Jobs -> {"absent", "writing", "partial", "complete"}]
    /\ store \in [Files -> {"absent", "writing", "partial", "complete"}]
    /\ writer \in [Files -> 0..MaxClock]
    /\ db \subseteq 2..4

(***************************************************************************)
(* loadConfig and mergeDeep.  A JSON value is given by the kind of what is *)
(* at each key path: "none" (no such key), "obj" (an object), "arr" (an    *)
(* array) or a scalar; the paths are a part of defaultConfig and keys that *)
(* defaultConfig does not have.                                            *)
(***************************************************************************)
Root == <<>>

Paths ==
    {Root,
     <<"isChinaRegion">>,
     <<"dify">>,
     <<"dify", "version">>,
     <<"dify", "version", "tag">>,
     <<"dify", "migration">>,
     <<"dify", "migration", "enabled">>,
     <<"dify", "migration", "fromVersion">>,
     <<"dify", "dbMigration">>,
     <<"dify", "dbMigration", "enabled">>}

Prefix(p, n) == SubSeq(p, 1, n)

Parent(p) == Prefix(p, Len(p) - 1)

\* q is p or above p
IsPrefix(q, p) == Len(q) <= Len(p) /\ Prefix(p, Len(q)) = q

\* the object defaultConfig, on these paths
DefaultConfig ==
    [p \in Paths |->
        CASE p = Root -> "obj"
          [] p = <<"isChinaRegion">> -> "false"
          [] p = <<"dify">> -> "obj"
          [] p = <<"dify", "version">> -> "1.4.2"
          [] p = <<"dify", "migration">> -> "obj"
          [] p = <<"dify", "migration", "enabled">> -> "true"
          [] OTHER -> "none"]

NoConfig == [p \in Paths |-> "none"]

\* what a config.json can parse to: "u" is a string or number the user wrote
UserKinds == {"none", "obj", "arr", "u"}

\* a key exists only in an object
WellFormed(t) ==
    \A p \in Paths \ {Root} : t[p] # "none" => t[Parent(p)] = "obj"

\* a JSON text is an object, or an array, a string or number, or null
UserConfigs ==
    {[p \in Paths |-> IF p = Root THEN "obj" ELSE t[p]] :
        t \in {u \in [Paths \ {Root} -> UserKinds] :
                 WellFormed([p \in Paths |-> IF p = Root THEN "obj" ELSE u[p]])}}
      \cup {[p \in Paths |-> IF p = Root THEN k ELSE "none"] :
                k \in {"arr", "u", "null"}}

\* the file: missing, not JSON, or JSON
ConfigFiles ==
    {[state |-> "missing", json |-> NoConfig],
     [state |-> "invalid", json |-> NoConfig]}
      \cup {[state |-> "json", json |-> t] : t \in UserConfigs}

NoFile == [state |-> "none", json |-> NoConfig]

NotLoaded == [status |-> "none", config |-> NoConfig]

Thrown == [status |-> "thrown", config |-> NoConfig]

\* item && typeof item === 'object' && !Array.isArray(item)
isObject(item) == item = "obj"

\* Object.assign({}, target): a new object with the own properties of target;
\* none for a boolean, the characters for a string, the elements for an array
ObjectAssign(target) ==
    CASE target = "obj" -> "obj"
      [] target \in {"true", "false"} -> "obj"
      [] target = "arr" -> "indexed"
      [] OTHER -> "chars"

mergeDeep_Shallow(T, S, q) ==
    [p \in {x \in Paths : IsPrefix(q, x)} |->
        IF p = q THEN ObjectAssign(T[q])
        ELSE IF isObject(S[q]) /\ S[Prefix(p, Len(q) + 1)] # "none"
             THEN S[p] ELSE T[p]]

\* mergeDeep(target, source) for the values at path q of T and of S: the
\* object it returns, as the kinds at q and below
RECURSIVE mergeDeep(_, _, _)
mergeDeep(T, S, q) ==
    [p \in {x \in Paths : IsPrefix(q, x)} |->
        IF p = q THEN ObjectAssign(T[q])
        ELSE LET key == Prefix(p, Len(q) + 1) IN
             IF ~(isObject(T[q]) /\ isObject(S[q]))
             THEN IF isObject(T[q]) THEN T[p] ELSE "none"
             ELSE IF S[key] = "none" THEN T[p]
             ELSE IF isObject(S[key])
                  THEN IF T[key] = "none"
                       THEN S[p]
                       ELSE mergeDeep(T, S, key)[p]
                  ELSE S[p]]

loadConfig_FallsBack(file, defaults) ==
    IF file.state # "json" THEN [status |-> "returned", config |-> defaults]
    ELSE IF file.json[Root] = "null" THEN Thrown
    ELSE [status |-> "returned", config |-> mergeDeep(defaults, file.json, Root)]

\* loadConfig: throws when the file is missing, when JSON.parse throws, and
\* when the parsed value is null (customConfig.postgresSQL of null)
loadConfig(file, defaults) ==
    IF file.state = "missing" THEN Thrown
    ELSE IF file.state = "invalid" THEN Thrown
    ELSE IF file.json[Root] = "null" THEN Thrown
    ELSE [status |-> "returned", config |-> mergeDeep(defaults, file.json, Root)]

\* loadConfig is not called
InitNoConfig ==
    /\ configFile = NoFile
    /\ loadResult = NotLoaded
    /\ defaultConfig = DefaultConfig

\* no DifyHelmConstruct is constructed
NoHelmProps == [construct |-> "none", enabled |-> UNSET, alb |-> FALSE]

InitNoHelm ==
    /\ helmProps = NoHelmProps
    /\ helmOrch = "off"
    /\ helmDeclared = {}
    /\ helmDeps = {}
    /\ helmCreated = <<>>
    /\ migPhase = "absent"
    /\ migRestarts = 0

\* nothing but DifyMigrationConstruct is followed
InitOther == InitNoHelm /\ InitNoConfig

\* the namespace before the first deployment: nothing declared, nothing applied
InitCluster ==
    /\ gate = [r \in Invocations |-> "none"]
    /\ now = [r \in Invocations |-> 0]
    /\ declared = [r \in Invocations |-> <<>>]
    /\ deps = [r \in Invocations |-> {}]
    /\ statusRecord = [r \in Invocations |-> NoRecord]
    /\ jobSpecs = [r \in Invocations |-> NoJobSpecs]
    /\ created = [r \in Invocations |-> {}]
    /\ pvc = FALSE
    /\ configMap = NoRecord
    /\ phase = [j \in Jobs |-> "absent"]
    /\ pc = [j \in Jobs |-> "-"]
    /\ restarts = [j \in Jobs |-> 0]
    /\ attempts = [j \in Jobs |-> 0]
    /\ flask = [j \in Jobs |-> "none"]
    /\ local = [j \in Jobs |-> "absent"]
    /\ store = [f \in Files |-> "absent"]
    /\ writer = [f \in Files |-> 0]
    /\ db = {}

\* one deployment action: the constructor is invoked once
Init ==
    /\ InitCluster
    /\ InitOther
    /\ request \in ChainRequests
    /\ orch = [r \in Invocations |-> IF r = 1 THEN "start" ELSE "off"]

\* one deployment action, for every configuration
InitGate ==
    /\ InitCluster
    /\ InitOther
    /\ request \in Requests
    /\ orch = [r \in Invocations |-> IF r = 1 THEN "start" ELSE "off"]

\* what the first invocation has declared and deployed when a later deployment
\* action for the same configuration begins
InitFirstDeployed ==
    /\ InitOther
    /\ request \in {req \in ChainRequests : shouldRunMigration(req)}
    /\ orch = [r \in Invocations |-> IF r = 1 THEN "returned" ELSE "start"]
    /\ gate = [r \in Invocations |-> IF r = 1 THEN "true" ELSE "none"]
    /\ now = [r \in Invocations |-> IF r = 1 THEN 1 ELSE 0]
    /\ declared = [r \in Invocations |-> IF r = 1 THEN DeclaredResources ELSE <<>>]
    /\ deps = [r \in Invocations |-> IF r = 1 THEN DeclaredDependencies ELSE {}]
    /\ statusRecord = [r \in Invocations |->
            IF r = 1 THEN createMigrationConfigMap(request, 1) ELSE NoRecord]
    /\ jobSpecs = [r \in Invocations |->
            IF r = 1 THEN [n \in Stages |-> JobSpec(n)] ELSE NoJobSpecs]
    /\ created = [r \in Invocations |-> IF r = 1 THEN Resources ELSE {}]
    /\ pvc = TRUE
    /\ configMap = createMigrationConfigMap(request, 1)
    /\ pc = [j \in Jobs |-> "-"]
    /\ flask = [j \in Jobs |-> "none"]
    /\ local = [j \in Jobs |-> "absent"]

\* the chain of the first invocation has succeeded and left its files, the
\* records of its Jobs are removed
InitCompleted ==
    /\ phase = [j \in Jobs |-> "absent"]
    /\ restarts = [j \in Jobs |-> 0]
    /\ attempts = [j \in Jobs |-> 0]
    /\ store = [f \in Files |-> "complete"]
    /\ writer = [f \in Files |-> 1]
    /\ db = 2..4

\* the chain of the first invocation is stalled: Extract has succeeded, Install
\* has failed for good before its touch, the two Jobs after it are waiting
InitStalled ==
    /\ phase = [j \in Jobs |->
            IF j[2] # 1 THEN "absent"
            ELSE CASE Stage(j) = 1 -> "succeeded"
                   [] Stage(j) = 2 -> "failed"
                   [] OTHER -> "waiting"]
    /\ restarts = [j \in Jobs |-> IF j = <<2, 1>> THEN backoffLimit ELSE 0]
    /\ attempts = [j \in Jobs |->
            CASE j = <<1, 1>> -> 1
              [] j = <<2, 1>> -> backoffLimit + 1
              [] OTHER -> 0]
    /\ store = [f \in Files |-> IF f = Manifest THEN "complete" ELSE "absent"]
    /\ writer = [f \in Files |-> IF f = Manifest THEN 1 ELSE 0]
    /\ db = {}

\* a later deployment action for the same configuration
InitRerun == InitFirstDeployed /\ (InitCompleted \/ InitStalled)

\* two deployment actions for the same configuration
InitTwo ==
    /\ InitCluster
    /\ InitOther
    /\ request \in ChainRequests
    /\ orch = [r \in Invocations |-> "start"]

(***************************************************************************)
(* DifyMigrationConstruct.constructor                                      *)
(***************************************************************************)
\* Date.now(), in milliseconds: not before any value read earlier, and equal to
\* it when read within the same millisecond; the first reading is 1.  The four
\* create*Job calls of one invocation are taken to read the same value.
DateNow ==
    IF \A r \in Invocations : now[r] = 0
    THEN {1}
    ELSE {t \in Clock : t >= Max({now[r] : r \in Invocations})}

Construct_Blocking(r) ==
    /\ orch[r] = "start"
    /\ store[Marker(4)] # "absent"
    /\ orch' = [orch EXCEPT ![r] = "returned"]
    /\ IF shouldRunMigration(request)
       THEN \E t \in DateNow :
            /\ gate' = [gate EXCEPT ![r] = "true"]
            /\ now' = [now EXCEPT ![r] = t]
            /\ declared' = [declared EXCEPT ![r] = DeclaredResources]
            /\ deps' = [deps EXCEPT ![r] = DeclaredDependencies]
            /\ statusRecord' =
                   [statusRecord EXCEPT ![r] = createMigrationConfigMap(request, t)]
            /\ jobSpecs' = [jobSpecs EXCEPT ![r] = [n \in Stages |-> JobSpec(n)]]
       ELSE /\ gate' = [gate EXCEPT ![r] = "false"]
            /\ UNCHANGED <<now, declared, deps, statusRecord, jobSpecs>>
    /\ UNCHANGED <<otherVars, request, created, pvc, configMap, jobVars, volumeVars, db>>

Construct(r) ==
    /\ orch[r] = "start"
    /\ orch' = [orch EXCEPT ![r] = "returned"]
    /\ IF shouldRunMigration(request)
       THEN \E t \in DateNow :
            /\ gate' = [gate EXCEPT ![r] = "true"]
            /\ now' = [now EXCEPT ![r] = t]
            /\ declared' = [declared EXCEPT ![r] = DeclaredResources]
            /\ deps' = [deps EXCEPT ![r] = DeclaredDependencies]
            /\ statusRecord' =
                   [statusRecord EXCEPT ![r] = createMigrationConfigMap(request, t)]
            /\ jobSpecs' = [jobSpecs EXCEPT ![r] = [n \in Stages |-> JobSpec(n)]]
       ELSE /\ gate' = [gate EXCEPT ![r] = "false"]
            /\ UNCHANGED <<now, declared, deps, statusRecord, jobSpecs>>
    /\ UNCHANGED <<otherVars, request, created, pvc, configMap, jobVars, volumeVars, db>>

(***************************************************************************)
(* The cluster: containers of a Job's pod                                  *)
(***************************************************************************)
\* the main container starts (first start or restart): a fresh working directory
StartContainer(j) ==
    /\ phase' = [phase EXCEPT ![j] = "running"]
    /\ pc' = [pc EXCEPT ![j] = FirstCmd(Stage(j))]
    /\ attempts' = [attempts EXCEPT ![j] = @ + 1]
    /\ flask' = [flask EXCEPT ![j] = "none"]
    /\ local' = [local EXCEPT ![j] = "absent"]

\* the pod is finished: no process and no working directory are left
ContainerGone(j) ==
    /\ pc' = [pc EXCEPT ![j] = "-"]
    /\ flask' = [flask EXCEPT ![j] = "none"]
    /\ local' = [local EXCEPT ![j] = "absent"]

\* the main container ended with a non-zero status:
\* restartPolicy OnFailure, backoffLimit 3
ContainerFailed(j) ==
    IF MayRestart(j)
    THEN /\ StartContainer(j)
         /\ restarts' = [restarts EXCEPT ![j] = @ + 1]
    ELSE /\ phase' = [phase EXCEPT ![j] = "failed"]
         /\ ContainerGone(j)
         /\ UNCHANGED <<restarts, attempts>>

\* the script ran to its end and its last command returned 0
ContainerSucceeded(j) ==
    /\ phase' = [phase EXCEPT ![j] = "succeeded"]
    /\ ContainerGone(j)
    /\ UNCHANGED <<restarts, attempts>>

\* go on with the next command of the script (no set -e: also after a failure)
Goto(j, cmd) ==
    /\ pc' = [pc EXCEPT ![j] = cmd]
    /\ UNCHANGED <<phase, restarts, attempts>>

\* a file of the volume is written by Job j
WriteFile(j, f, content) ==
    /\ store' = [store EXCEPT ![f] = content]
    /\ writer' = [writer EXCEPT ![f] = j[2]]

\* the Job of stage n is applied: a Job of that name that exists is left as it
\* is; a new Job's pod starts with its init container, if it has one
ApplyJob(j) ==
    IF phase[j] # "absent"
    THEN UNCHANGED jobVars
    ELSE IF Stage(j) = 1
         THEN StartContainer(j) /\ UNCHANGED restarts
         ELSE /\ phase' = [phase EXCEPT ![j] = "waiting"]
              /\ UNCHANGED <<pc, restarts, attempts, flask, local>>

\* the deployment of invocation r applies a declared manifest once everything
\* it depends on is applied
ApplyManifest(r, res) ==
    /\ orch[r] = "returned"
    /\ res \in Range(declared[r]) \ created[r]
    /\ \A d \in deps[r] : d[1] = res => d[2] \in created[r]
    /\ created' = [created EXCEPT ![r] = @ \cup {res}]
    /\ pvc' = IF res = PvcId THEN TRUE ELSE pvc
    /\ configMap' = IF res = ConfigMapId THEN statusRecord[r] ELSE configMap
    /\ IF \E n \in Stages : res = JobId(n)
       THEN LET n == CHOOSE k \in Stages : res = JobId(k) IN
            ApplyJob(<<n, now[r]>>)
       ELSE UNCHANGED jobVars
    /\ UNCHANGED <<otherVars, orchVars, volumeVars, db>>

\* init containers wait-for-extraction, wait-for-plugin-install,
\* wait-for-db-upgrade: leave the loop when the file is there
InitContainerExit(j) ==
    /\ Stage(j) \in 2..4
    /\ phase[j] = "waiting"
    /\ InitContainerDone(Stage(j))
    /\ StartContainer(j)
    /\ UNCHANGED <<otherVars, orchVars, created, pvc, configMap, restarts, volumeVars, db>>

ContainerKilled_RollsBack(j) ==
    /\ phase[j] = "running"
    /\ ContainerFailed(j)
    /\ db' = IF MayRestart(j) THEN db ELSE {}
    /\ UNCHANGED <<otherVars, orchVars, created, pvc, configMap, volumeVars>>

\* the cluster ends a running container (out of memory, eviction): non-zero
ContainerKilled(j) ==
    /\ phase[j] = "running"
    /\ ContainerFailed(j)
    /\ UNCHANGED <<otherVars, orchVars, created, pvc, configMap, volumeVars, db>>

JobCleanup_DeletesFiles(j) ==
    /\ phase[j] \in {"succeeded", "failed"}
    /\ phase' = [phase EXCEPT ![j] = "absent"]
    /\ restarts' = [restarts EXCEPT ![j] = 0]
    /\ attempts' = [attempts EXCEPT ![j] = 0]
    /\ store' = [store EXCEPT ![Marker(Stage(j))] = "absent"]
    /\ UNCHANGED <<otherVars, orchVars, created, pvc, configMap, pc, flask, local, writer, db>>

\* ttlSecondsAfterFinished: the record of a finished Job and its pod are removed
JobCleanup(j) ==
    /\ phase[j] \in {"succeeded", "failed"}
    /\ phase' = [phase EXCEPT ![j] = "absent"]
    /\ restarts' = [restarts EXCEPT ![j] = 0]
    /\ attempts' = [attempts EXCEPT ![j] = 0]
    /\ UNCHANGED <<otherVars, orchVars, created, pvc, configMap, pc, flask, local, volumeVars, db>>

(***************************************************************************)
(* The container scripts                                                   *)
(***************************************************************************)
\* poetry run flask extract-plugins | install-plugins | db upgrade |
\* migrate-data-for-plugin; extract-plugins leaves ./plugins.jsonl, the
\* others change the database
RunFlask(j) ==
    /\ phase[j] = "running"
    /\ pc[j] = "flask"
    /\ \E res \in {"ok", "fail"} :
        /\ flask' = [flask EXCEPT ![j] = res]
        /\ IF Stage(j) = 1
           THEN /\ \E out \in (IF res = "ok" THEN {"complete"}
                                             ELSE {"absent", "partial"}) :
                       local' = [local EXCEPT ![j] = out]
                /\ UNCHANGED db
           ELSE /\ UNCHANGED local
                /\ db' = IF res = "ok" THEN db \cup {Stage(j)} ELSE db
    /\ Goto(j, IF Stage(j) = 1 THEN "cp" ELSE "touch")
    /\ UNCHANGED <<otherVars, orchVars, created, pvc, configMap, volumeVars>>

\* cp plugins.jsonl /migration/plugins.jsonl: fails when there is no source,
\* else creates (or truncates) the target ...
ExtractCp(j) ==
    /\ Stage(j) = 1
    /\ phase[j] = "running"
    /\ pc[j] = "cp"
    /\ IF local[j] = "absent"
       THEN Goto(j, "ls") /\ UNCHANGED volumeVars
       ELSE Goto(j, "cpWrite") /\ WriteFile(j, Manifest, "writing")
    /\ UNCHANGED <<otherVars, orchVars, created, pvc, configMap, flask, local, db>>

\* ... and then writes the content
ExtractCpWrite(j) ==
    /\ Stage(j) = 1
    /\ phase[j] = "running"
    /\ pc[j] = "cpWrite"
    /\ WriteFile(j, Manifest, local[j])
    /\ Goto(j, "ls")
    /\ UNCHANGED <<otherVars, orchVars, created, pvc, configMap, flask, local, db>>

\* echo; ls -la /migration/ : the last command of the script
ExtractLs(j) ==
    /\ Stage(j) = 1
    /\ phase[j] = "running"
    /\ pc[j] = "ls"
    /\ ContainerSucceeded(j)
    /\ UNCHANGED <<otherVars, orchVars, created, pvc, configMap, volumeVars, db>>

\* cp /migration/plugins.jsonl ./plugins.jsonl
InstallCpIn(j) ==
    /\ Stage(j) = 2
    /\ phase[j] = "running"
    /\ pc[j] = "cpIn"
    /\ local' = [local EXCEPT ![j] = store[Manifest]]
    /\ Goto(j, "flask")
    /\ UNCHANGED <<otherVars, orchVars, created, pvc, configMap, flask, volumeVars, db>>

\* touch /migration/install-complete | db-upgrade-complete | migration-complete
Touch(j) ==
    /\ Stage(j) \in 2..4
    /\ phase[j] = "running"
    /\ pc[j] = "touch"
    /\ WriteFile(j, Marker(Stage(j)), "complete")
    /\ IF Stage(j) = 4
       THEN Goto(j, "note") /\ UNCHANGED <<flask, local>>
       ELSE ContainerSucceeded(j)
    /\ UNCHANGED <<otherVars, orchVars, created, pvc, configMap, db>>

WriteNote_UpdatesStatus(j) ==
    /\ Stage(j) = 4
    /\ phase[j] = "running"
    /\ pc[j] = "note"
    /\ WriteFile(j, StatusNote, "complete")
    /\ ContainerSucceeded(j)
    /\ configMap' = [configMap EXCEPT !.status = "completed"]
    /\ UNCHANGED <<otherVars, orchVars, created, pvc, db>>

\* echo "Migration completed at $(date)" > /migration/status.txt
WriteNote(j) ==
    /\ Stage(j) = 4
    /\ phase[j] = "running"
    /\ pc[j] = "note"
    /\ WriteFile(j, StatusNote, "complete")
    /\ ContainerSucceeded(j)
    /\ UNCHANGED <<otherVars, orchVars, created, pvc, configMap, db>>

(***************************************************************************)
(* DifyHelmConstruct (two constructors of that name) and the Job           *)
(* dify-db-migration                                                       *)
(***************************************************************************)
\* the constructor of part_008 and the constructor of lib/helm/dify-helm.ts
HelmConstructs == {"part_008", "dify-helm.ts"}

\* config.dify.dbMigration.enabled and, in dify-helm.ts, props.alb
HelmProps ==
    {p \in [construct : HelmConstructs, enabled : OptBool, alb : BOOLEAN] :
        p.construct = "part_008" => ~p.alb}

\* the resources: ids 'dify-ns' | 'Namespace', 'db-secret' | 'DbSecret',
\* 'DbMigration'/'migration-job' | 'DbMigrationJob',
\* 'DifyHelmChart' | 'HelmChart', 'ApiTGB', 'FrontendTGB'
HelmNs == "Namespace"
DbSecret == "DbSecret"
DbMigrationJob == "DbMigrationJob"
HelmChart == "HelmChart"
ApiTGB == "ApiTGB"
FrontendTGB == "FrontendTGB"

HelmResourceIds == {HelmNs, DbSecret, DbMigrationJob, HelmChart, ApiTGB, FrontendTGB}

\* DatabaseMigrationConstruct.constructor: nothing unless enabled === true
DatabaseMigrationConstruct(p) ==
    IF p.enabled # "true" THEN {} ELSE {DbMigrationJob}

\* createDatabaseMigration of dify-helm.ts: Secret and Job declared inline
createDatabaseMigration(p) == {DbSecret, DbMigrationJob}

HelmResources(p) ==
    {HelmNs, HelmChart}
      \cup (IF ~Truthy(p.enabled) THEN {}
            ELSE IF p.construct = "part_008"
                 THEN {DbSecret} \cup DatabaseMigrationConstruct(p)
                 ELSE createDatabaseMigration(p))
      \cup (IF p.construct = "dify-helm.ts" /\ p.alb
            THEN {ApiTGB, FrontendTGB} ELSE {})

\* only the constructor of part_008 makes the chart depend on the migration
HelmDependencies(p) ==
    {<<HelmChart, HelmNs>>}
      \cup (IF ~Truthy(p.enabled) THEN {}
            ELSE {<<DbSecret, HelmNs>>, <<DbMigrationJob, DbSecret>>}
                   \cup (IF p.construct = "part_008"
                         THEN {<<HelmChart, DbMigrationJob>>} ELSE {}))
      \cup (IF p.construct = "dify-helm.ts" /\ p.alb
            THEN {<<ApiTGB, HelmChart>>, <<FrontendTGB, HelmChart>>} ELSE {})

\* backoffLimit of the Job dify-db-migration
dbMigrationBackoffLimit == 3

HelmTypeOK ==
    /\ helmProps \in HelmProps \cup {NoHelmProps}
    /\ helmOrch \in {"off", "start", "returned"}
    /\ helmDeclared \subseteq HelmResourceIds
    /\ Range(helmCreated) \subseteq helmDeclared
    /\ migPhase \in {"absent", "waiting", "running", "succeeded", "failed"}
    /\ migRestarts \in 0..dbMigrationBackoffLimit

\* one deployment action of the Helm construct; DifyMigrationConstruct is not
\* constructed
InitHelm ==
    /\ InitCluster
    /\ request \in {req \in ChainRequests : shouldRunMigration(req)}
    /\ orch = [r \in Invocations |-> "off"]
    /\ InitNoConfig
    /\ helmProps \in HelmProps
    /\ helmOrch = "start"
    /\ helmDeclared = {}
    /\ helmDeps = {}
    /\ helmCreated = <<>>
    /\ migPhase = "absent"
    /\ migRestarts = 0

HelmConstruct ==
    /\ helmOrch = "start"
    /\ helmOrch' = "returned"
    /\ helmDeclared' = HelmResources(helmProps)
    /\ helmDeps' = HelmDependencies(helmProps)
    /\ UNCHANGED <<migrationVars, configVars, helmProps, helmCreated, migPhase, migRestarts>>

\* the deployment creates a declared resource once everything it depends on
\* is created; a created Job starts with its init container wait-for-db
HelmApply(res) ==
    /\ helmOrch = "returned"
    /\ res \in helmDeclared \ Range(helmCreated)
    /\ \A d \in helmDeps :
          (d[1] = res /\ d[2] \in helmDeclared) => d[2] \in Range(helmCreated)
    /\ helmCreated' = Append(helmCreated, res)
    /\ migPhase' = IF res = DbMigrationJob THEN "waiting" ELSE migPhase
    /\ UNCHANGED <<migrationVars, configVars, helmProps, helmOrch, helmDeclared, helmDeps,
                   migRestarts>>

\* wait-for-db: until pg_isready ...; do sleep 5; done
MigrationDbReady ==
    /\ migPhase = "waiting"
    /\ migPhase' = "running"
    /\ UNCHANGED <<migrationVars, configVars, helmProps, helmOrch, helmDeclared, helmDeps,
                   helmCreated, migRestarts>>

\* set -e; flask db upgrade: restartPolicy OnFailure, backoffLimit 3
MigrationFlask ==
    /\ migPhase = "running"
    /\ \E res \in {"ok", "fail"} :
          IF res = "ok"
          THEN migPhase' = "succeeded" /\ UNCHANGED migRestarts
          ELSE IF migRestarts < dbMigrationBackoffLimit
               THEN migRestarts' = migRestarts + 1 /\ UNCHANGED migPhase
               ELSE migPhase' = "failed" /\ UNCHANGED migRestarts
    /\ UNCHANGED <<migrationVars, configVars, helmProps, helmOrch, helmDeclared, helmDeps,
                   helmCreated>>

\* activeDeadlineSeconds: the Job is failed when it is still active
MigrationDeadline ==
    /\ migPhase \in {"waiting", "running"}
    /\ migPhase' = "failed"
    /\ UNCHANGED <<migrationVars, configVars, helmProps, helmOrch, helmDeclared, helmDeps,
                   helmCreated, migRestarts>>

NextHelm ==
    \/ HelmConstruct
    \/ \E res \in HelmResourceIds : HelmApply(res)
    \/ MigrationDbReady
    \/ MigrationFlask
    \/ MigrationDeadline

(***************************************************************************)
(* loadConfig                                                              *)
(***************************************************************************)
\* one call of loadConfig; DifyMigrationConstruct and DifyHelmConstruct are
\* not constructed
InitConfig ==
    /\ InitCluster
    /\ InitNoHelm
    /\ request \in {req \in ChainRequests : shouldRunMigration(req)}
    /\ orch = [r \in Invocations |-> "off"]
    /\ configFile \in ConfigFiles
    /\ loadResult = NotLoaded
    /\ defaultConfig = DefaultConfig

\* every write of mergeDeep goes to output, a new object: defaultConfig is
\* read only
LoadConfig ==
    /\ loadResult.status = "none"
    /\ loadResult' = loadConfig(configFile, defaultConfig)
    /\ UNCHANGED <<migrationVars, helmVars, configFile, defaultConfig>>

NextConfig == LoadConfig

\* the constructor and the deployment of what it declared
NextDeploy ==
    \/ \E r \in Invocations : Construct(r)
    \/ \E r \in Invocations : \E res \in Resources : ApplyManifest(r, res)

\* ... with the Jobs running, no container ended by the cluster
NextRun ==
    \/ NextDeploy
    \/ \E j \in Jobs : InitContainerExit(j)
    \/ \E j \in Jobs : RunFlask(j)
    \/ \E j \in Jobs : ExtractCp(j)
    \/ \E j \in Jobs : ExtractCpWrite(j)
    \/ \E j \in Jobs : ExtractLs(j)
    \/ \E j \in Jobs : InstallCpIn(j)
    \/ \E j \in Jobs : Touch(j)
    \/ \E j \in Jobs : WriteNote(j)

\* ... with containers ended by the cluster
Next ==
    \/ NextRun
    \/ \E j \in Jobs : ContainerKilled(j)

\* ... and with the records of finished Jobs removed
NextTtl ==
    \/ Next
    \/ \E j \in Jobs : JobCleanup(j)

\* one invocation, the Jobs run with failures
Spec == Init /\ [][Next]_vars

\* one invocation, with failures and the removal of finished Jobs
SpecTtl == Init /\ [][NextTtl]_vars

\* one invocation for every configuration, the Jobs run without failures
SpecGate == InitGate /\ [][NextRun]_vars

\* two invocations and their deployments, up to the start of the pods
SpecTwo == InitTwo /\ [][NextDeploy]_vars

\* a second invocation after the chain of the first has completed or has
\* stalled; the Jobs run without failures
SpecRerun == InitRerun /\ [][NextRun]_vars

\* one invocation, with failures; every container that can take a step of its
\* script and every manifest that can be applied eventually does, while the
\* cluster is not bound to end any container
SpecFair == Init /\ [][Next]_vars /\ WF_vars(NextRun)

\* one call of loadConfig for every config.json
SpecConfig == InitConfig /\ [][NextConfig]_vars

\* the Helm construct and the database migration Job
SpecHelm == InitHelm /\ [][NextHelm]_vars

(***************************************************************************)
(* Properties                                                              *)
(***************************************************************************)
\* the main container of Job j starts in this step (first start or restart)
BodyStarts(j) == attempts'[j] > attempts[j]

\* the attempt of Job j that is running ends in this step
AttemptEnds(j) ==
    /\ phase[j] = "running"
    /\ (phase'[j] # "running" \/ attempts'[j] # attempts[j])

\* the Job of stage n declared by invocation r
ChainJob(r, n) == <<n, now[r]>>

\* C1: for N in 2..4 the body of Stage N never starts while marker[N-1]
\* (plugins.jsonl, install-complete, db-upgrade-complete) is absent from the
\* volume: the marker is written before every start of the body.
C1_BodyAfterMarker ==
    [][\A j \in Jobs :
          (Stage(j) \in 2..4 /\ BodyStarts(j)) =>
              store[Marker(Stage(j) - 1)] # "absent"]_vars

C1_Witness ==
    /\ phase[<<4, 1>>] = "running"
    /\ attempts[<<3, 1>>] >= 2
    /\ store[Marker(3)] = "complete"

\* C2: a marker is written only by an attempt whose flask command finished
\* successfully; an attempt whose flask command failed writes no marker.
C2_MarkerOnlyOnSuccess ==
    [][\A n \in Stages :
          store'[Marker(n)] # store[Marker(n)] =>
              \E j \in Jobs :
                  Stage(j) = n /\ phase[j] = "running" /\ flask[j] = "ok"]_vars

\* the requests of C3: migration enabled, a source version, no skip
RunRequested(req) ==
    /\ req.enabled = "true"
    /\ req.fromVersion \notin {UNSET, ""}
    /\ req.skipPluginMigration \in {UNSET, "false"}

NothingInstantiated ==
    /\ \A r \in Invocations :
          /\ declared[r] = <<>>
          /\ deps[r] = {}
          /\ created[r] = {}
          /\ ~statusRecord[r].exists
    /\ ~pvc
    /\ ~configMap.exists
    /\ \A j \in Jobs : phase[j] = "absent" /\ attempts[j] = 0
    /\ \A f \in Files : store[f] = "absent"

\* C3: with enabled = true, a non-empty fromVersion and no skip, the gate
\* returns true and the constructor declares one volume claim, one status
\* record and the four Jobs Extract, Install, SchemaUpgrade, DataMigrate in
\* this order, each Job after the first waiting for the file of the Job before.
C3_GateTrueFourStages ==
    (orch[1] = "returned" /\ RunRequested(request)) =>
        /\ gate[1] = "true"
        /\ declared[1] = <<"migration-pvc", "migration-configmap",
                           "extract-plugins-job", "install-plugins-job",
                           "db-upgrade-job", "data-migration-job">>
        /\ statusRecord[1].exists
        /\ \A n \in 2..4 :
              /\ <<JobId(n), JobId(n - 1)>> \in deps[1]
              /\ WaitFile(n) = Marker(n - 1)
        /\ \A j \in Jobs :
              phase[j] # "absent" => j[2] = now[1] /\ JobId(Stage(j)) \in created[1]

C3_Witness ==
    /\ request.enabled = "true"
    /\ request.fromVersion = "1.0.0"
    /\ request.skipPluginMigration = "false"
    /\ request.difyVersion = "1.4.2"
    /\ created[1] = Resources
    /\ \A n \in Stages : phase[ChainJob(1, n)] = "succeeded"

\* C4: with enabled false or unset the gate returns false and no Job, no
\* volume claim and no status record is instantiated, whatever the other
\* fields are.
C4_DisabledNothing ==
    request.enabled \in {UNSET, "false"} =>
        /\ orch[1] = "returned" => gate[1] = "false"
        /\ NothingInstantiated

C4_Witness ==
    /\ orch[1] = "returned"
    /\ request.enabled = "false"
    /\ request.fromVersion = "1.0.0"
    /\ request.skipPluginMigration = "false"
    /\ request.autoDetect = "true"

\* C5: with enabled = true and fromVersion unset or empty the gate returns
\* false and nothing is instantiated, for both values of autoDetect and every
\* target version; the constructor returns normally.
C5_NoFromVersionNothing ==
    (request.enabled = "true" /\ request.fromVersion \in {UNSET, ""}) =>
        /\ orch[1] = "returned" => gate[1] = "false"
        /\ NothingInstantiated

C5_Witness ==
    /\ orch[1] = "returned"
    /\ request.enabled = "true"
    /\ request.fromVersion = ""
    /\ request.autoDetect = "true"
    /\ request.skipPluginMigration = "false"

\* C6: with enabled = true, fromVersion set and skipPluginMigration = true
\* the gate returns false and no Job at all is instantiated (SchemaUpgrade
\* and DataMigrate included).
C6_SkipSkipsWholeChain ==
    (/\ request.enabled = "true"
     /\ request.fromVersion \notin {UNSET, ""}
     /\ request.skipPluginMigration = "true") =>
        /\ orch[1] = "returned" => gate[1] = "false"
        /\ NothingInstantiated

C6_Witness ==
    /\ orch[1] = "returned"
    /\ request.enabled = "true"
    /\ request.fromVersion = "1.0.0"
    /\ request.skipPluginMigration = "true"

\* C7: no Job starts its main container more than 4 times (first start and
\* 3 restarts), also when every attempt fails.
C7_AtMostFourAttempts == \A j \in Jobs : attempts[j] <= 4

C7_Witness ==
    \E j \in Jobs : phase[j] = "failed" /\ attempts[j] = 4 /\ restarts[j] = 3

\* C8: an attempt whose flask command exits non-zero counts as a failed
\* attempt (it is restarted, or the Job fails when the restarts are used up)
\* and never ends with the Job reported succeeded.
C8_FailedBodyIsRetried ==
    [][\A j \in Jobs :
          (flask[j] = "fail" /\ AttemptEnds(j)) =>
              /\ phase'[j] # "succeeded"
              /\ (restarts'[j] = restarts[j] + 1 \/ phase'[j] = "failed")]_vars

\* C9: once Job N has failed for good, no Job after it starts its body.
C9_DownstreamBlocked ==
    [][\A j \in Jobs : \A k \in Jobs :
          (Stage(k) > Stage(j) /\ phase[j] = "failed") => ~BodyStarts(k)]_vars

\* C10: the bodies of two different Jobs never run at the same time.
C10_OneBodyAtATime ==
    Cardinality({j \in Jobs : phase[j] = "running"}) <= 1

TaskNames(r) == {JobName(n, now[r]) : n \in Stages}

BothInstantiated == \A r \in Invocations : orch[r] = "returned" /\ gate[r] = "true"

\* C12: two invocations for the same request declare two chains of Jobs whose
\* names are pairwise distinct, all eight Jobs mounting the same volume claim.
C12_DistinctTaskNames ==
    BothInstantiated =>
        /\ TaskNames(1) \cap TaskNames(2) = {}
        /\ \A r \in Invocations : \A n \in Stages :
              jobSpecs[r][n].claimName = PvcName

\* C13: the volume belongs to one run: while a Job of a run exists, every file
\* on the volume it mounts was written by a Job of the same run.
C13_StoreOwnedByOneRun ==
    \A j \in Jobs :
        phase[j] # "absent" =>
            \A f \in Files : store[f] # "absent" => writer[f] = j[2]

\* C14: no Job observes a file that is still being written: when the init
\* container of Job N leaves its loop the file it waited for is written
\* completely, and Install never copies a plugins.jsonl that Extract's cp has
\* created and not yet filled.
C14_NoPartialMarkerObserved ==
    [][\A j \in Jobs :
          /\ (Stage(j) \in 2..4 /\ phase[j] = "waiting" /\ phase'[j] = "running")
                => store[Marker(Stage(j) - 1)] # "writing"
          /\ (Stage(j) = 2 /\ pc[j] = "cpIn" /\ pc'[j] = "flask")
                => store[Manifest] # "writing"]_vars

\* the deadline of the Job dify-db-migration of DatabaseMigrationConstruct,
\* which is not one of the four Jobs of the chain
activeDeadlineSeconds == 600

\* C15: of the four Jobs exactly SchemaUpgrade (dify-db-upgrade) has a
\* deadline, of 600 seconds; Extract, Install and DataMigrate have none.
C15_OnlySchemaUpgradeDeadline ==
    \A r \in Invocations :
        gate[r] = "true" =>
            /\ jobSpecs[r][3].activeDeadlineSeconds = {activeDeadlineSeconds}
            /\ \A n \in {1, 2, 4} : jobSpecs[r][n].activeDeadlineSeconds = {}

\* C16: the init container of Jobs 2..4 waits without a bound: while the file
\* of the Job before is absent the Job stays in its init container, does not
\* fail, uses up no restart and starts no attempt; it leaves the init
\* container only for its main container, and only when the file is there.
C16_UnboundedWait ==
    [][\A j \in Jobs :
          (Stage(j) \in 2..4 /\ phase[j] = "waiting") =>
              /\ phase'[j] \in {"waiting", "running"}
              /\ restarts'[j] = restarts[j]
              /\ phase'[j] = "waiting" => attempts'[j] = attempts[j]
              /\ phase'[j] = "running" => store[Marker(Stage(j) - 1)] # "absent"]_vars

C16_Witness ==
    /\ phase[<<2, 1>>] = "failed"
    /\ store[Marker(2)] = "absent"
    /\ phase[<<3, 1>>] = "waiting"
    /\ attempts[<<3, 1>>] = 0
    /\ phase[<<4, 1>>] = "waiting"

\* C17: nothing is rolled back: the step in which a Job fails for good leaves
\* the database and the volume as they are, no step undoes a change of the
\* database, and the file of a Job that has succeeded stays as it is.
C17_NoRollback ==
    [][/\ \A j \in Jobs :
             (phase[j] # "failed" /\ phase'[j] = "failed") =>
                 db' = db /\ store' = store
       /\ db \subseteq db'
       /\ \A k \in Jobs :
             phase[k] = "succeeded" =>
                 store'[Marker(Stage(k))] = store[Marker(Stage(k))]]_vars

C17_Witness ==
    /\ phase[<<1, 1>>] = "succeeded"
    /\ phase[<<2, 1>>] = "succeeded"
    /\ phase[<<3, 1>>] = "failed"
    /\ store[Manifest] = "complete"
    /\ store[Marker(2)] = "complete"
    /\ 2 \in db

\* C18: the gate's result is a function of enabled, fromVersion and
\* skipPluginMigration alone: every request that agrees with the evaluated
\* one on these three fields gets the same result, whatever autoDetect and the
\* target version (also "" and "17") are; the evaluation always yields true or
\* false, and a false result leaves nothing instantiated.
C18_GateDependsOnThreeFields ==
    orch[1] = "returned" =>
        /\ gate[1] \in {"true", "false"}
        /\ \A req \in Requests :
              (/\ req.enabled = request.enabled
               /\ req.fromVersion = request.fromVersion
               /\ req.skipPluginMigration = request.skipPluginMigration) =>
                  (shouldRunMigration(req) <=> gate[1] = "true")
        /\ gate[1] = "false" => NothingInstantiated

C18_Witness ==
    /\ orch[1] = "returned"
    /\ gate[1] = "true"
    /\ request.difyVersion = ""
    /\ request.autoDetect = "false"
    /\ request.skipPluginMigration = UNSET

\* C19: an invocation of the constructor always returns: whenever it has been
\* entered its one step to the return can be taken, whatever the Jobs and the
\* files on the volume are (a Job failed for good, Jobs waiting for a file that
\* never comes), and a Job of its own exists only after it has returned.
C19_ConstructorReturns ==
    \A r \in Invocations :
        orch[r] = "start" =>
            /\ ENABLED Construct(r)
            /\ created[r] = {}

C19_Witness ==
    /\ orch[2] = "returned"
    /\ gate[2] = "true"
    /\ created[2] = {}
    /\ phase[<<2, 1>>] = "failed"
    /\ phase[<<3, 1>>] = "waiting"
    /\ store[Marker(2)] = "absent"

\* C20: nothing is deleted from the volume and the volume claim is not
\* deleted: a file that exists under /migration exists after every step, also
\* after all four Jobs have finished, after a Job has failed for good and
\* after the records of finished Jobs have been removed.
C20_StoreOnlyGrows ==
    [][/\ pvc => pvc'
       /\ \A f \in Files : store[f] # "absent" => store'[f] # "absent"]_vars

C20_Witness ==
    /\ created[1] = Resources
    /\ pvc
    /\ phase[<<1, 1>>] = "failed"
    /\ \A n \in 2..4 : phase[<<n, 1>>] = "absent"
    /\ \A f \in Files : store[f] # "absent"

\* C21: with the gate true the declared dependencies are one chain (Extract on
\* the volume claim and on the ConfigMap, Install on Extract, SchemaUpgrade on
\* Install, DataMigrate on SchemaUpgrade), so the Jobs are created in the order
\* Extract, Install, SchemaUpgrade, DataMigrate and none of them before the
\* volume claim and the ConfigMap exist.
C21_CreatedInChainOrder ==
    \A r \in Invocations :
        gate[r] = "true" =>
            /\ deps[r] = {<<"extract-plugins-job", "migration-pvc">>,
                          <<"extract-plugins-job", "migration-configmap">>,
                          <<"install-plugins-job", "extract-plugins-job">>,
                          <<"db-upgrade-job", "install-plugins-job">>,
                          <<"data-migration-job", "db-upgrade-job">>}
            /\ \A n \in 2..4 :
                  JobId(n) \in created[r] => JobId(n - 1) \in created[r]
            /\ \A n \in Stages :
                  JobId(n) \in created[r] =>
                      /\ {PvcId, ConfigMapId} \subseteq created[r]
                      /\ pvc
                      /\ configMap.exists

C21_Witness ==
    /\ gate[1] = "true"
    /\ created[1] = {PvcId, ConfigMapId, JobId(1), JobId(2), JobId(3)}
    /\ phase[<<1, 1>>] = "running"

\* all four Jobs of the first invocation have succeeded and left their files
ChainDone ==
    /\ \A n \in Stages : phase[<<n, 1>>] = "succeeded"
    /\ \A n \in Stages : store[Marker(n)] # "absent"

\* the Job of stage n has ended as succeeded although no attempt of its flask
\* command succeeded (the manifest is not complete, the database not changed)
BodyNeverSucceeded(n) ==
    /\ phase[<<n, 1>>] = "succeeded"
    /\ IF n = 1 THEN store[Manifest] # "complete" ELSE n \notin db

RerunAfterCompletedRun ==
    /\ now[2] # now[1]
    /\ \A n \in Stages : phase[<<n, now[1]>>] = "absent"

\* C23: in a second run on the volume of an earlier completed run, the body
\* of Job N of the new run starts only after Job N-1 of the new run has
\* succeeded, for N in 2..4.
C23_RerunInOrder ==
    [][\A j \in Jobs :
          (/\ RerunAfterCompletedRun
           /\ j[2] = now[2]
           /\ Stage(j) \in 2..4
           /\ BodyStarts(j)) =>
              phase[<<Stage(j) - 1, j[2]>>] = "succeeded"]_vars

\* C24: in a single run that starts on an empty volume the files present are
\* a prefix of the chain: install-complete only with plugins.jsonl,
\* db-upgrade-complete only with install-complete, migration-complete only
\* with db-upgrade-complete.
C24_MarkersFormPrefix ==
    \A n \in 2..4 :
        store[Marker(n)] # "absent" => store[Marker(n - 1)] # "absent"

C24_Witness ==
    /\ store[Marker(1)] # "absent"
    /\ store[Marker(2)] # "absent"
    /\ store[Marker(3)] = "absent"
    /\ phase[<<3, 1>>] = "failed"
    /\ phase[<<4, 1>>] = "waiting"

\* C25: whenever the status ConfigMap is declared or exists, its fromVersion
\* is the configured fromVersion and its toVersion is the version deployed;
\* the fallback 'unknown' is never stored.
C25_RecordVersions ==
    /\ \A r \in Invocations :
          statusRecord[r].exists =>
              /\ statusRecord[r].fromVersion = request.fromVersion
              /\ statusRecord[r].toVersion = request.difyVersion
              /\ statusRecord[r].fromVersion # "unknown"
    /\ configMap.exists =>
          /\ configMap.fromVersion = request.fromVersion
          /\ configMap.toVersion = request.difyVersion
          /\ configMap.fromVersion # "unknown"

C25_Witness ==
    /\ configMap.exists
    /\ configMap.fromVersion = "1.0.0"
    /\ configMap.toVersion = "17"
    /\ request.skipPluginMigration = UNSET

\* b is created only after a
CreatedBefore(a, b) ==
    \A k \in 1..Len(helmCreated) :
        helmCreated[k] = b => \E i \in 1..(k - 1) : helmCreated[i] = a

\* C26: with dbMigration.enabled true the Helm deployment creates namespace,
\* Secret dify-db-credentials, Job dify-db-migration and the application chart
\* in this order: the chart never before the Job, the Job never before the
\* Secret; with dbMigration.enabled not true, no Secret and no Job are declared.
C26_HelmCreationOrder ==
    helmOrch = "returned" =>
        IF helmProps.enabled = "true"
        THEN /\ {DbSecret, DbMigrationJob} \subseteq helmDeclared
             /\ CreatedBefore(HelmNs, DbSecret)
             /\ CreatedBefore(DbSecret, DbMigrationJob)
             /\ CreatedBefore(DbMigrationJob, HelmChart)
        ELSE /\ DbSecret \notin helmDeclared
             /\ DbMigrationJob \notin helmDeclared

\* a value of the user's file: a scalar or an array
IsValue(k) == k \in {"u", "arr"}

\* defaultConfig has a value at p or could have one: nothing above p is a
\* scalar or an array in defaultConfig
UnderDefaultObjects(p) ==
    \A n \in 1..(Len(p) - 1) : DefaultConfig[Prefix(p, n)] \in {"none", "obj"}

\* the user's file neither has the key p nor puts a value where p's parents are
NotGiven(U, p) ==
    /\ U[p] = "none"
    /\ \A n \in 1..(Len(p) - 1) : U[Prefix(p, n)] \in {"none", "obj"}

C28_NoSilentFallback ==
    (configFile.state \in {"missing", "invalid"} /\ loadResult.status # "none")
        => /\ loadResult.status = "thrown"
           /\ loadResult.config = NoConfig

\* loadConfig has thrown for a file that is not JSON
C28_Witness ==
    /\ configFile.state = "invalid"
    /\ loadResult = Thrown

====
